---- MODULE Spec2Model ----
(***************************************************************************)
(* Ocean provider: request handlers of routes/consume.py and               *)
(* routes/compute.py over the shared nonce store, and the URL safety       *)
(* check of utils/url.py.                                                  *)
(*                                                                         *)
(* Each in-flight request is handled by one worker.  A handler is cut into *)
(* atomic steps at its accesses to the nonce store (get_nonce,             *)
(* increment_nonce); the calls to collaborators (asset directory, ledger,  *)
(* codec, compute cluster, upstream fetch) are inputs chosen by the        *)
(* environment in the step that makes them.                                *)
(***************************************************************************)
EXTENDS Integers, Sequences, FiniteSets, TLC

VARIABLES
    store,      \* NonceStore: identity -> nonce, rows exist only for seen identities
    store0,     \* the store as it was when the process started
    incCalls,   \* identity -> number of completed increment_nonce calls
    accepted,   \* signature -> number of requests that passed verify_signature with it
    started,    \* number of requests received so far
    req,        \* worker -> the request it handles and the handler's locals
    url,        \* argument of is_safe_url
    dns,        \* resolver answers for the domain: record type -> records or NoRecords
    allow_non_public_ip,    \* config flag
    urlPc,      \* "ready" before the call of is_safe_url, "done" after
    urlResult,  \* value returned by is_safe_url
    dnsQueries, \* number of resolver lookups made by the call
    probe,      \* one call of check_url_details: its locals and what it returned
    dl,         \* one call of build_download_response: its locals and what it returned
    order       \* one call of validate_order: its locals and what it returned

nonceVars == <<store, store0, incCalls, accepted, started, req>>
urlVars == <<url, dns, allow_non_public_ip, urlPc, urlResult, dnsQueries>>
fetchVars == <<probe, dl, order>>
vars == <<store, store0, incCalls, accepted, started, req,
          url, dns, allow_non_public_ip, urlPc, urlResult, dnsQueries,
          probe, dl, order>>

\* no call of check_url_details, build_download_response or validate_order is in progress
NoCall == [pc |-> "off"]

---------------------------------------------------------------------------
(* Bounds *)

MaxRequests == 2
PersistedNonce == 1
MaxSigNonce == 1

Workers == {"w1", "w2"}
Identity == {"0xA1", "0xB2"}
JobId == "j7"
DocIds == {"did:op:1", "did:op:2"}

---------------------------------------------------------------------------
(* NonceStore (ocean_provider.user_nonce) *)

\* get_nonce(address): the stored nonce, 0 for an identity never seen
get_nonce(s, address) == IF address \in DOMAIN s THEN s[address] ELSE 0

\* a faulty increment that writes a fresh row and forgets the stored value
increment_nonce_fresh(s, address) ==
    [a \in (DOMAIN s) \cup {address} |-> IF a = address THEN 1 ELSE s[a]]

\* a faulty increment that moves the counter the wrong way once it is positive
increment_nonce_down(s, address) ==
    [a \in (DOMAIN s) \cup {address} |->
        IF a = address
        THEN (IF get_nonce(s, a) > 1 THEN get_nonce(s, a) - 1 ELSE get_nonce(s, a) + 1)
        ELSE s[a]]

\* increment_nonce(address): atomically advance the stored nonce by 1
increment_nonce(s, address) ==
    [a \in (DOMAIN s) \cup {address} |->
        IF a = address THEN get_nonce(s, address) + 1 ELSE s[a]]

---------------------------------------------------------------------------
(* Signatures (ocean_provider.utils.accounts) *)

NoSig == [signer |-> "", msg |-> "", nonce |-> 0]

\* what a client produces when it signs msg with the nonce it was given
Sign(signer, msg, n) == [signer |-> signer, msg |-> msg, nonce |-> n]

\* verify_signature(signer_address, signature, original_msg, nonce):
\* TRUE when it returns, FALSE when it raises InvalidSignatureError
verify_signature(signer_address, signature, original_msg, n) ==
    /\ signature.signer = signer_address
    /\ signature.msg = original_msg
    /\ signature.nonce = n

\* computeStatus: original_msg = f"{owner}{jobId}{did}"
original_msg(owner, jobId, did) == owner \o jobId \o did

\* the signatures a request may carry: each identity signs the status
\* message of the first document with a nonce it has obtained
Signatures ==
    { Sign(a, original_msg(a, JobId, "did:op:1"), n) : a \in Identity, n \in 0..MaxSigNonce }

---------------------------------------------------------------------------
(* Compute cluster responses and the status filter of computeStatus *)

\* keys_to_filter of computeStatus
keys_to_filter == {"resultsUrl", "algorithmLogUrl", "resultsDid"}

\* a JSON value inside a body: a dict (by its key set) or something else
Dict(keys) == [dict |-> TRUE, keys |-> keys]
NotDict == [dict |-> FALSE, keys |-> {}]

NoBody == [kind |-> "none", items |-> <<>>]
ObjectBody(item) == [kind |-> "object", items |-> <<item>>]
ListBody(items) == [kind |-> "list", items |-> items]
NonJsonBody == [kind |-> "nonjson", items |-> <<>>]

JobPlain == Dict({"jobId", "status"})
JobFull == Dict({"jobId", "status", "resultsUrl", "algorithmLogUrl", "resultsDid"})
JobDid == Dict({"jobId", "resultsDid"})

NoCluster == [status |-> 0, body |-> NoBody]

\* what the compute cluster answers: response.status_code and response.content
Cluster(status, body) == [status |-> status, body |-> body]

ClusterResponses ==
    { Cluster(200, ObjectBody(JobFull)),
      Cluster(200, ListBody(<<JobDid, JobPlain>>)),
      Cluster(200, ListBody(<<JobFull, NotDict>>)),
      Cluster(401, ObjectBody(Dict({"error", "resultsUrl"}))),
      Cluster(500, NonJsonBody) }

\* service_unavailable: json.dumps({"error": str(error), "context": context})
service_unavailable_body == ObjectBody(Dict({"error", "context"}))

\* json.loads(response.content) raises ValueError, or job_info.pop raises on a non-dict
filter_raises(body) ==
    \/ body.kind = "nonjson"
    \/ \E i \in 1..Len(body.items) : ~body.items[i].dict

\* a faulty filter that strips the keys only from a body that is a list
filter_status_list_only(body) ==
    IF body.kind = "list"
    THEN ListBody([i \in 1..Len(body.items) |->
                    Dict(body.items[i].keys \ keys_to_filter)])
    ELSE ListBody(body.items)

\* computeStatus lines 240-254: wrap a single object in a list, pop the three
\* keys from every job_info, dump the list
filter_status(body) ==
    ListBody([i \in 1..Len(body.items) |-> Dict(body.items[i].keys \ keys_to_filter)])

\* a faulty check that keeps signed_request set when verification raises
status_signed_unchecked(data, n) == data.sig # NoSig

\* computeStatus lines 224-235: signed_request after the verification against
\* the nonce n that get_nonce(owner) returned
status_signed(data, n) ==
    /\ data.sig # NoSig
    /\ verify_signature(data.addr, data.sig, original_msg(data.addr, JobId, data.did), n)

---------------------------------------------------------------------------
(* Requests *)

Endpoints ==
    { "nonce", "encrypt", "fileinfo", "initialize", "download",
      "computeDelete", "computeStop", "computeStatus", "computeStart", "computeResult" }

\* the request data of one call: the address it names (userAddress,
\* publisherAddress or consumerAddress), and for GET /compute the signature
\* and the documentId
Request(e, a, s, d) == [ep |-> e, addr |-> a, sig |-> s, did |-> d]

\* the requests of the server as a whole: every endpoint, GET /compute
\* unsigned or signed by the caller with nonce 0
RequestData ==
    { Request(e, a, NoSig, "did:op:1") : e \in Endpoints, a \in Identity }
    \cup
    { Request("computeStatus", a, Sign(a, original_msg(a, JobId, "did:op:1"), 0), "did:op:1") :
        a \in Identity }

\* the requests of GET /compute: unsigned, or carrying any of the signatures
\* for the document they were made for, or the caller's own signature replayed
\* for another document
StatusRequests ==
    { Request("computeStatus", a, s, "did:op:1") : a \in Identity, s \in Signatures \cup {NoSig} }
    \cup
    { Request("computeStatus", a, Sign(a, original_msg(a, JobId, "did:op:1"), 0), "did:op:2") :
        a \in Identity }

IdleReq ==
    [ pc |-> "idle", data |-> [ep |-> "none", addr |-> "", sig |-> NoSig, did |-> ""],
      env |-> <<>>, incs |-> 0, status |-> 0, nonceOut |-> -1, cluster |-> NoCluster,
      readNonce |-> -1, signed |-> FALSE, body |-> NoBody ]

\* the outcome e of the calls the handler makes in this step, as the environment chose it
Env(r, e) == [r EXCEPT !.env = Append(@, e)]

\* the handler returns: response status and body
Respond(r, status, body) == [r EXCEPT !.pc = "done", !.status = status, !.body = body]

\* the handler calls increment_nonce(address): the store and the call counters
Incremented(w, address, r) ==
    /\ store' = increment_nonce(store, address)
    /\ incCalls' = [incCalls EXCEPT ![address] = @ + 1]
    /\ req' = [req EXCEPT ![w] = [r EXCEPT !.incs = @ + 1]]

\* a request out of D arrives at worker w and passes get_request_data
ReceiveFrom(w, D) ==
    /\ req[w].pc \in {"idle", "done"}
    /\ started < MaxRequests
    /\ \E d \in D :
        req' = [req EXCEPT ![w] = [IdleReq EXCEPT !.pc = d.ep, !.data = d]]
    /\ started' = started + 1
    /\ UNCHANGED <<store, store0, incCalls, accepted>>
    /\ UNCHANGED <<urlVars, fetchVars>>

Receive(w) == ReceiveFrom(w, RequestData)

ReceiveStatus(w) == ReceiveFrom(w, StatusRequests)

---------------------------------------------------------------------------
(* routes/consume.py *)

Unchanged(w) == UNCHANGED <<store, store0, incCalls, accepted, started>> /\ UNCHANGED <<urlVars, fetchVars>>

\* GET /nonce
nonce(w) ==
    /\ req[w].pc = "nonce"
    /\ req' = [req EXCEPT ![w] =
                [Respond(Env(@, "ok"), 200, ObjectBody(Dict({"nonce"})))
                    EXCEPT !.nonceOut = get_nonce(store, req[w].data.addr)]]
    /\ Unchanged(w)

\* a faulty /encrypt that increments the nonce before it calls do_encrypt
encrypt_increment_first(w) ==
    /\ req[w].pc = "encrypt"
    /\ \E env \in {"bad_document", "encrypt_raises", "ok"} :
        CASE env = "bad_document" ->
                /\ req' = [req EXCEPT ![w] = Respond(Env(@, env), 500, NoBody)]
                /\ UNCHANGED <<store, incCalls>>
          [] env = "encrypt_raises" ->
                Incremented(w, req[w].data.addr,
                            Respond(Env(req[w], env), 503, service_unavailable_body))
          [] env = "ok" ->
                Incremented(w, req[w].data.addr,
                            Respond(Env(req[w], env), 201,
                                    ObjectBody(Dict({"encryptedDocument"}))))
    /\ UNCHANGED <<store0, accepted, started>>
    /\ UNCHANGED <<urlVars, fetchVars>>

\* POST /encrypt: json.loads(document) is outside the try block; do_encrypt and
\* increment_nonce are inside it
encrypt(w) ==
    /\ req[w].pc = "encrypt"
    /\ \E env \in {"bad_document", "encrypt_raises", "ok"} :
        CASE env = "bad_document" ->
                /\ req' = [req EXCEPT ![w] = Respond(Env(@, env), 500, NoBody)]
                /\ UNCHANGED <<store, incCalls>>
          [] env = "encrypt_raises" ->
                /\ req' = [req EXCEPT ![w] = Respond(Env(@, env), 503, service_unavailable_body)]
                /\ UNCHANGED <<store, incCalls>>
          [] env = "ok" ->
                Incremented(w, req[w].data.addr,
                            Respond(Env(req[w], env), 201,
                                    ObjectBody(Dict({"encryptedDocument"}))))
    /\ UNCHANGED <<store0, accepted, started>>
    /\ UNCHANGED <<urlVars, fetchVars>>

\* POST /fileinfo: no try block, no nonce access
fileinfo(w) ==
    /\ req[w].pc = "fileinfo"
    /\ \E env \in {"raises", "ok"} :
        req' = [req EXCEPT ![w] =
                 IF env = "raises" THEN Respond(Env(@, env), 500, NoBody)
                 ELSE Respond(Env(@, env), 200, ListBody(<<Dict({"index", "valid"})>>))]
    /\ Unchanged(w)

\* a faulty /initialize that prepares the transfer without the verdict of the probe
initialize_unprobed(w) ==
    /\ req[w].pc = "initialize"
    /\ \E env \in {"raises", "not_consumable", "url_invalid", "ok"} :
        req' = [req EXCEPT ![w] =
                 CASE env = "raises" -> Respond(Env(@, env), 503, service_unavailable_body)
                   [] env = "not_consumable" ->
                        Respond(Env(@, env), 400, ObjectBody(Dict({"error"})))
                   [] env \in {"url_invalid", "ok"} ->
                        [Respond(Env(@, env), 200, ObjectBody(Dict({"from", "to", "numTokens",
                                    "dataToken", "nonce", "computeAddress"})))
                            EXCEPT !.nonceOut = get_nonce(store, req[w].data.addr)]]
    /\ Unchanged(w)

\* GET /initialize
initialize(w) ==
    /\ req[w].pc = "initialize"
    /\ \E env \in {"raises", "not_consumable", "url_invalid", "ok"} :
        req' = [req EXCEPT ![w] =
                 CASE env = "raises" -> Respond(Env(@, env), 503, service_unavailable_body)
                   [] env = "not_consumable" ->
                        Respond(Env(@, env), 400, ObjectBody(Dict({"error"})))
                   [] env = "url_invalid" ->
                        Respond(Env(@, env), 400, ObjectBody(Dict({"error"})))
                   [] env = "ok" ->
                        [Respond(Env(@, env), 200, ObjectBody(Dict({"from", "to", "numTokens",
                                    "dataToken", "nonce", "computeAddress"})))
                            EXCEPT !.nonceOut = get_nonce(store, req[w].data.addr)]]
    /\ Unchanged(w)

\* a faulty /download that increments the nonce before it validates the order
download_increment_first(w) ==
    /\ req[w].pc = "download"
    /\ \E env \in {"process_raises", "not_consumable", "order_raises", "no_url", "ready"} :
        CASE env = "process_raises" ->
                /\ req' = [req EXCEPT ![w] = Respond(Env(@, env), 503, service_unavailable_body)]
                /\ UNCHANGED <<store, incCalls>>
          [] env = "order_raises" ->
                Incremented(w, req[w].data.addr,
                            Respond(Env(req[w], env), 503, service_unavailable_body))
          [] env \in {"not_consumable", "no_url"} ->
                /\ req' = [req EXCEPT ![w] =
                            Respond(Env(@, env), 400, ObjectBody(Dict({"error"})))]
                /\ UNCHANGED <<store, incCalls>>
          [] env = "ready" ->
                Incremented(w, req[w].data.addr, [Env(req[w], env) EXCEPT !.pc = "download_fetch"])
    /\ UNCHANGED <<store0, accepted, started>>
    /\ UNCHANGED <<urlVars, fetchVars>>

\* GET /download up to and including increment_nonce(consumer_address)
download(w) ==
    /\ req[w].pc = "download"
    /\ \E env \in {"process_raises", "not_consumable", "order_raises", "no_url", "ready"} :
        CASE env \in {"process_raises", "order_raises"} ->
                /\ req' = [req EXCEPT ![w] = Respond(Env(@, env), 503, service_unavailable_body)]
                /\ UNCHANGED <<store, incCalls>>
          [] env \in {"not_consumable", "no_url"} ->
                /\ req' = [req EXCEPT ![w] =
                            Respond(Env(@, env), 400, ObjectBody(Dict({"error"})))]
                /\ UNCHANGED <<store, incCalls>>
          [] env = "ready" ->
                Incremented(w, req[w].data.addr, [Env(req[w], env) EXCEPT !.pc = "download_fetch"])
    /\ UNCHANGED <<store0, accepted, started>>
    /\ UNCHANGED <<urlVars, fetchVars>>

\* build_download_response as called by download and computeResult: it
\* raises (unsafe url, upstream failure) or returns the upstream status
build_download(w) ==
    /\ req[w].pc \in {"download_fetch", "computeResult_fetch"}
    /\ \E env \in {"raises", "ok"}, upstream \in {200, 404} :
        req' = [req EXCEPT ![w] =
                 IF env = "raises" THEN Respond(Env(@, env), 503, service_unavailable_body)
                 ELSE Respond(Env(@, env), upstream, NoBody)]
    /\ Unchanged(w)

---------------------------------------------------------------------------
(* routes/compute.py *)

\* process_compute_request: body["owner"] = consumerAddress
body_owner(data) == data.addr

\* DELETE /compute, PUT /compute: the cluster call, then increment_nonce(body["owner"])
computeCall(w, ep) ==
    /\ req[w].pc = ep
    /\ \E env \in {"raises", "ok"}, c \in ClusterResponses :
        IF env = "raises"
        THEN /\ req' = [req EXCEPT ![w] = Respond(Env(@, env), 503, service_unavailable_body)]
             /\ UNCHANGED <<store, incCalls>>
        ELSE Incremented(w, body_owner(req[w].data),
                         Respond(Env(req[w], env), c.status, c.body))
    /\ UNCHANGED <<store0, accepted, started>>
    /\ UNCHANGED <<urlVars, fetchVars>>

computeDelete(w) == computeCall(w, "computeDelete")

computeStop(w) == computeCall(w, "computeStop")

\* POST /compute
computeStart(w) ==
    /\ req[w].pc = "computeStart"
    /\ \E env \in {"raises", "invalid", "ok"}, c \in ClusterResponses :
        CASE env = "raises" ->
                /\ req' = [req EXCEPT ![w] = Respond(Env(@, env), 503, service_unavailable_body)]
                /\ UNCHANGED <<store, incCalls>>
          [] env = "invalid" ->
                /\ req' = [req EXCEPT ![w] =
                            Respond(Env(@, env), 400, ObjectBody(Dict({"error"})))]
                /\ UNCHANGED <<store, incCalls>>
          [] env = "ok" ->
                Incremented(w, req[w].data.addr, Respond(Env(req[w], env), c.status, c.body))
    /\ UNCHANGED <<store0, accepted, started>>
    /\ UNCHANGED <<urlVars, fetchVars>>

\* GET /computeResult up to and including increment_nonce(consumerAddress)
computeResult(w) ==
    /\ req[w].pc = "computeResult"
    /\ Incremented(w, req[w].data.addr, [req[w] EXCEPT !.pc = "computeResult_fetch"])
    /\ UNCHANGED <<store0, accepted, started>>
    /\ UNCHANGED <<urlVars, fetchVars>>

\* what computeStatus returns once signed_request is settled
status_response(r) ==
    IF r.signed THEN Respond(r, r.cluster.status, r.cluster.body)
    ELSE IF filter_raises(r.cluster.body) THEN Respond(r, 503, service_unavailable_body)
    ELSE Respond(r, r.cluster.status, filter_status(r.cluster.body))

\* GET /compute: process_compute_request and the cluster call; an unsigned
\* request goes straight to the filter
computeStatus(w) ==
    /\ req[w].pc = "computeStatus"
    /\ \E env \in {"raises", "ok"}, c \in ClusterResponses :
        req' = [req EXCEPT ![w] =
                 IF env = "raises" THEN Respond(Env(@, env), 503, service_unavailable_body)
                 ELSE IF @.data.sig # NoSig
                      THEN [Env(@, env) EXCEPT !.pc = "computeStatus_verify", !.cluster = c]
                      ELSE status_response([Env(@, env) EXCEPT !.cluster = c])]
    /\ Unchanged(w)

\* GET /compute, signed: verify_signature(owner, signature, original_msg, get_nonce(owner))
computeStatus_verify(w) ==
    /\ req[w].pc = "computeStatus_verify"
    /\ LET ok == status_signed(req[w].data, get_nonce(store, req[w].data.addr)) IN
        /\ req' = [req EXCEPT ![w] = [@ EXCEPT !.pc = "computeStatus_increment",
                                              !.readNonce = get_nonce(store, req[w].data.addr),
                                              !.signed = ok]]
        /\ accepted' = IF ok THEN [accepted EXCEPT ![req[w].data.sig] = @ + 1] ELSE accepted
    /\ UNCHANGED <<store, store0, incCalls, started>>
    /\ UNCHANGED <<urlVars, fetchVars>>

\* a faulty GET /compute that increments the nonce only when the signature verified
computeStatus_increment_if_verified(w) ==
    /\ req[w].pc = "computeStatus_increment"
    /\ IF req[w].signed
       THEN Incremented(w, req[w].data.addr, status_response(req[w]))
       ELSE /\ req' = [req EXCEPT ![w] = status_response(@)]
            /\ UNCHANGED <<store, incCalls>>
    /\ UNCHANGED <<store0, accepted, started>>
    /\ UNCHANGED <<urlVars, fetchVars>>

\* GET /compute, signed: increment_nonce(owner), then the filter and the response
computeStatus_increment(w) ==
    /\ req[w].pc = "computeStatus_increment"
    /\ Incremented(w, req[w].data.addr, status_response(req[w]))
    /\ UNCHANGED <<store0, accepted, started>>
    /\ UNCHANGED <<urlVars, fetchVars>>

---------------------------------------------------------------------------
(* The server: requests arrive and are handled concurrently *)

\* the nonce store starts empty or with rows persisted by an earlier run
InitHandlers ==
    /\ \E S \in SUBSET Identity : store = [a \in S |-> PersistedNonce]
    /\ store0 = store
    /\ incCalls = [a \in Identity |-> 0]
    /\ accepted = [s \in Signatures |-> 0]
    /\ started = 0
    /\ req = [w \in Workers |-> IdleReq]

InitFetchIdle ==
    /\ probe = NoCall
    /\ dl = NoCall
    /\ order = NoCall

InitUrlIdle ==
    /\ url = <<>>
    /\ dns = [A |-> [found |-> FALSE, recs |-> <<>>], AAAA |-> [found |-> FALSE, recs |-> <<>>]]
    /\ allow_non_public_ip = FALSE
    /\ urlPc = "off"
    /\ urlResult = FALSE
    /\ dnsQueries = 0

Init == InitHandlers /\ InitUrlIdle /\ InitFetchIdle

Next ==
    \E w \in Workers :
        \/ Receive(w)
        \/ nonce(w)
        \/ encrypt(w)
        \/ fileinfo(w)
        \/ initialize(w)
        \/ download(w)
        \/ build_download(w)
        \/ computeDelete(w)
        \/ computeStop(w)
        \/ computeStart(w)
        \/ computeResult(w)
        \/ computeStatus(w)
        \/ computeStatus_verify(w)
        \/ computeStatus_increment(w)

Spec == Init /\ [][Next]_vars

\* GET /compute alone, with the full range of signatures and cluster answers
NextStatus ==
    \E w \in Workers :
        \/ ReceiveStatus(w)
        \/ computeStatus(w)
        \/ computeStatus_verify(w)
        \/ computeStatus_increment(w)

SpecStatus == Init /\ [][NextStatus]_vars

---------------------------------------------------------------------------
(* Properties of the nonce store and the handlers *)

Done(w) == req[w].pc = "done"

\* C1: for every identity the stored nonce is its initial value plus the number
\* of completed increment_nonce calls for it, whatever the interleaving of the
\* requests in flight, and GET /nonce answers that value
C1_NonceCountsIncrements ==
    [][ /\ \A a \in Identity : get_nonce(store', a) = get_nonce(store0', a) + incCalls'[a]
        /\ \A w \in Workers :
            (req[w].pc = "nonce" /\ req'[w].pc = "done") =>
                req'[w].nonceOut = get_nonce(store0, req[w].data.addr)
                                    + incCalls[req[w].data.addr] ]_vars

\* a request incremented a persisted nonce and GET /nonce has since answered
C1_Witness ==
    \E w \in Workers, a \in DOMAIN store0 :
        /\ Done(w) /\ req[w].data.ep = "nonce" /\ req[w].data.addr = a
        /\ incCalls[a] = 1
        /\ req[w].nonceOut = PersistedNonce + 1

\* the signature of request r verifies against the nonce the handler read
Verifies(r) ==
    /\ r.data.sig # NoSig
    /\ r.readNonce >= 0
    /\ verify_signature(r.data.addr, r.data.sig,
                        original_msg(r.data.addr, JobId, r.data.did), r.readNonce)

HasFilteredKey(body) ==
    \E i \in 1..Len(body.items) : body.items[i].keys \cap keys_to_filter # {}

\* C2: in GET /compute a signature made with nonce K is rejected once the nonce
\* read for the claimed identity is past K: signed_request is cleared and the
\* response carries none of the filtered keys
C2_ReplayRejected ==
    \A w \in Workers :
        LET r == req[w] IN
        (r.data.ep = "computeStatus" /\ r.data.sig # NoSig
            /\ r.readNonce > r.data.sig.nonce) =>
                /\ ~r.signed
                /\ Done(w) => ~HasFilteredKey(r.body)

\* the caller's own signature for this very message, replayed after the nonce
\* moved on, against a cluster answer that holds the filtered keys
C2_Witness ==
    \E w \in Workers :
        LET r == req[w] IN
        /\ Done(w) /\ r.data.ep = "computeStatus"
        /\ r.data.sig = Sign(r.data.addr, original_msg(r.data.addr, JobId, r.data.did), 0)
        /\ r.readNonce = 1
        /\ r.cluster.body = ObjectBody(JobFull)
        /\ r.status = 200

\* C3: a signature bound to nonce N passes verification at most once over any
\* interleaving of the requests that carry it
C3_AcceptedAtMostOnce == \A s \in Signatures : accepted[s] <= 1

\* C4: every endpoint has incremented the caller's nonce by the time a request
\* that passed get_request_data is answered, whatever the downstream outcome
C4_EveryEndpointIncrements == \A w \in Workers : Done(w) => req[w].incs >= 1

\* the outcomes after which a handler has reached its increment_nonce call
ReachesIncrement(r) ==
    CASE r.data.ep = "computeResult" -> TRUE
      [] r.data.ep \in {"nonce", "fileinfo", "initialize"} -> FALSE
      [] r.data.ep = "encrypt" -> r.env[1] = "ok"
      [] r.data.ep = "download" -> r.env[1] = "ready"
      [] r.data.ep \in {"computeDelete", "computeStop", "computeStart"} -> r.env[1] = "ok"
      [] r.data.ep = "computeStatus" -> r.env[1] = "ok" /\ r.data.sig # NoSig

\* C4 (amended): an answered request has incremented the nonce exactly once when
\* its handler reached increment_nonce, and not at all otherwise: always for
\* /computeResult, never for /nonce, /fileinfo and /initialize, for /encrypt,
\* /download and DELETE, PUT, POST /compute when every call before the increment
\* returned and no check answered early, for GET /compute when the request is
\* signed and the cluster call returned; what the cluster answers, whether the
\* signature verifies and whether the later fetch fails make no difference
C4_IncrementsWhenReached ==
    \A w \in Workers :
        Done(w) => req[w].incs = (IF ReachesIncrement(req[w]) THEN 1 ELSE 0)

\* an increment followed by a failed fetch, and an increment behind a cluster error
C4_Witness ==
    /\ \E w \in Workers :
        /\ Done(w) /\ req[w].data.ep = "download" /\ req[w].env = <<"ready", "raises">>
        /\ req[w].status = 503 /\ req[w].incs = 1
    /\ \E w \in Workers :
        /\ Done(w) /\ req[w].data.ep = "computeDelete" /\ req[w].status = 500
        /\ req[w].incs = 1

\* C5: no step lowers the stored nonce of any identity, and an identity that was
\* never seen has nonce 0
C5_NonceMonotone ==
    [][ /\ \A a \in Identity : get_nonce(store', a) >= get_nonce(store, a)
        /\ \A a \in Identity :
            (a \notin DOMAIN store0 /\ incCalls'[a] = 0) => get_nonce(store', a) = 0 ]_vars

\* an identity unseen at the start whose nonce has grown to 2 while the other is still unseen
C5_Witness ==
    \E a \in Identity :
        /\ a \notin DOMAIN store0 /\ get_nonce(store, a) = 2
        /\ \E b \in Identity \ {a} : b \notin DOMAIN store /\ get_nonce(store, b) = 0

\* C6: an answer of GET /compute to a request whose signature is absent or
\* fails verification holds no job object with resultsUrl, algorithmLogUrl or
\* resultsDid, whether the cluster sent an object or a list; when the signature
\* verifies the cluster's status and body are relayed as they came
C6_StatusFiltered ==
    \A w \in Workers :
        LET r == req[w] IN
        (Done(w) /\ r.data.ep = "computeStatus") =>
            IF Verifies(r)
            THEN r.body = r.cluster.body /\ r.status = r.cluster.status
            ELSE ~HasFilteredKey(r.body)

\* a failed signature and an absent one, each against a single job object that
\* holds the keys, answered with the filtered list
C6_Witness ==
    /\ \E w \in Workers :
        LET r == req[w] IN
        /\ Done(w) /\ r.data.ep = "computeStatus" /\ r.data.sig # NoSig /\ ~Verifies(r)
        /\ r.cluster.body = ObjectBody(JobFull)
        /\ r.body = ListBody(<<JobPlain>>)
    /\ \E w \in Workers :
        LET r == req[w] IN
        /\ Done(w) /\ r.data.ep = "computeStatus" /\ r.data.sig = NoSig
        /\ r.cluster.body = ListBody(<<JobDid, JobPlain>>)
        /\ r.body = ListBody(<<Dict({"jobId"}), JobPlain>>)

---------------------------------------------------------------------------
(* utils/url.py: is_safe_url.  Text is a sequence of one-character strings. *)

Digits == {"0", "1", "2", "3", "4", "5", "6", "7", "8", "9"}

Letters ==
    {"a", "b", "c", "d", "e", "f", "g", "h", "i", "j", "k", "l", "m",
     "n", "o", "p", "q", "r", "s", "t", "u", "v", "w", "x", "y", "z"}

\* scheme_chars of urllib.parse, lower case
SchemeChars == Letters \cup Digits \cup {"+", "-", "."}

DigitSeq == <<"0", "1", "2", "3", "4", "5", "6", "7", "8", "9">>

DigitVal(c) == (CHOOSE i \in 1..10 : DigitSeq[i] = c) - 1

\* str.find: the first position of a character of cs at or after from, 0 if none
Find(t, cs, from) ==
    IF \E i \in from..Len(t) : t[i] \in cs
    THEN CHOOSE i \in from..Len(t) : t[i] \in cs /\ \A k \in from..(i - 1) : t[k] \notin cs
    ELSE 0

Contains(t, c) == \E i \in 1..Len(t) : t[i] = c

\* urllib.parse.urlparse: scheme and netloc, or ok = FALSE when it raises
\* ValueError("Invalid IPv6 URL")
urlparse(u) ==
    LET i == Find(u, {":"}, 1)
        hasScheme == /\ i > 1
                     /\ u[1] \in Letters
                     /\ \A k \in 1..(i - 1) : u[k] \in SchemeChars
        scheme == IF hasScheme THEN SubSeq(u, 1, i - 1) ELSE <<>>
        rest == IF hasScheme THEN SubSeq(u, i + 1, Len(u)) ELSE u
        hasNetloc == Len(rest) >= 2 /\ rest[1] = "/" /\ rest[2] = "/"
        stop == Find(rest, {"/", "?", "#"}, 3)
        netloc == IF ~hasNetloc THEN <<>>
                  ELSE IF stop = 0 THEN SubSeq(rest, 3, Len(rest))
                  ELSE SubSeq(rest, 3, stop - 1)
        raises == \/ Contains(netloc, "[") /\ ~Contains(netloc, "]")
                  \/ Contains(netloc, "]") /\ ~Contains(netloc, "[")
    IN [ok |-> ~raises, scheme |-> scheme, netloc |-> netloc]

\* a faulty check that only asks whether the URL parses
is_safe_schema_parses(u) == urlparse(u).ok

\* is_safe_schema: all([result.scheme, result.netloc]), False when urlparse raises
is_safe_schema(u) ==
    LET result == urlparse(u) IN
    result.ok /\ result.scheme # <<>> /\ result.netloc # <<>>

\* is_ip: address.replace(".", "").isnumeric()
is_ip(address) ==
    LET t == SelectSeq(address, LAMBDA c : c # ".") IN
    t # <<>> /\ \A i \in 1..Len(t) : t[i] \in Digits

\* str.split("."), as ipaddress uses it on an IPv4 literal
RECURSIVE SplitDots(_)
SplitDots(t) ==
    LET i == Find(t, {"."}, 1) IN
    IF i = 0 THEN <<t>>
    ELSE <<SubSeq(t, 1, i - 1)>> \o SplitDots(SubSeq(t, i + 1, Len(t)))

\* the value of a decimal octet: 1 to 3 digits, no leading zero, at most 255; -1 otherwise
RECURSIVE Decimal(_)
Decimal(t) == IF t = <<>> THEN 0 ELSE 10 * Decimal(SubSeq(t, 1, Len(t) - 1)) + DigitVal(t[Len(t)])

Octet(t) ==
    IF /\ Len(t) \in 1..3
       /\ \A i \in 1..Len(t) : t[i] \in Digits
       /\ (Len(t) > 1 => t[1] # "0")
       /\ Decimal(t) <= 255
    THEN Decimal(t) ELSE -1

\* ipaddress: is_private or is_reserved or is_loopback of an IPv4 address
NonPublic4(o) ==
    \/ o[1] \in {0, 10, 127}
    \/ o[1] = 169 /\ o[2] = 254
    \/ o[1] = 172 /\ o[2] \in 16..31
    \/ o[1] = 192 /\ o[2] = 0 /\ o[3] = 0 /\ o[4] \in (0..7) \cup {170, 171}
    \/ o[1] = 192 /\ o[2] = 0 /\ o[3] = 2
    \/ o[1] = 192 /\ o[2] = 168
    \/ o[1] = 198 /\ o[2] \in {18, 19}
    \/ o[1] = 198 /\ o[2] = 51 /\ o[3] = 100
    \/ o[1] = 203 /\ o[2] = 0 /\ o[3] = 113
    \/ o[1] >= 240

Loopback6 == <<":", ":", "1">>
Private6 == <<"f", "d", "0", "0", ":", ":", "1">>
Global6 == <<"2", "6", "0", "0", ":", ":", "1">>

\* the IPv6 texts of the resolver answers, and whether ipaddress finds them
\* private, reserved or loopback
NonPublic6(t) == t \in {Loopback6, Private6}

\* ipaddress.ip_address(value): valid = FALSE when it raises ValueError
ip_address(value) ==
    IF value \in {Loopback6, Private6, Global6}
    THEN [valid |-> TRUE, nonpublic |-> NonPublic6(value)]
    ELSE LET parts == SplitDots(value) IN
         IF Len(parts) = 4 /\ \A i \in 1..4 : Octet(parts[i]) >= 0
         THEN [valid |-> TRUE, nonpublic |-> NonPublic4([i \in 1..4 |-> Octet(parts[i])])]
         ELSE [valid |-> FALSE, nonpublic |-> FALSE]

\* a faulty classification that never reads allow_non_public_ip
validate_dns_record_strict(value, allow) ==
    LET ip == ip_address(value) IN ip.valid /\ ~ip.nonpublic

\* validate_dns_record
validate_dns_record(value, allow) ==
    LET ip == ip_address(value) IN
    IF ~ip.valid THEN FALSE
    ELSE IF ip.nonpublic THEN allow
    ELSE TRUE

\* what _get_records returns: None on any resolver error, else the answer
NoRecords == [found |-> FALSE, recs |-> <<>>]
Records(recs) == [found |-> TRUE, recs |-> recs]

\* a faulty check that takes a failed lookup for a violation
validate_dns_records_none_unsafe(records, allow) ==
    /\ records.found
    /\ \A i \in 1..Len(records.recs) : validate_dns_record(records.recs[i], allow)

\* validate_dns_records
validate_dns_records(records, allow) ==
    \/ ~records.found
    \/ \A i \in 1..Len(records.recs) : validate_dns_record(records.recs[i], allow)

\* the records the for loop of validate_dns_records sees when it is handed the
\* domain string itself: the characters of the string, one by one
StrRecords(domain) == Records([i \in 1..Len(domain) |-> <<domain[i]>>])

\* is_safe_domain
is_safe_domain(domain, ip_v4_records, ip_v6_records, allow) ==
    LET result == /\ validate_dns_records(ip_v4_records, allow)
                  /\ validate_dns_records(ip_v6_records, allow)
    IN IF ~is_ip(domain) THEN result
       ELSE result /\ validate_dns_records(StrRecords(domain), allow)

\* is_safe_url, given the answers the resolver would give for the netloc
is_safe_url(u, ip_v4_records, ip_v6_records, allow) ==
    IF ~is_safe_schema(u) THEN FALSE
    ELSE is_safe_domain(urlparse(u).netloc, ip_v4_records, ip_v6_records, allow)

UrlLoopback4 == <<"h", "t", "t", "p", ":", "/", "/", "1", "2", "7", ".", "0", ".", "0", ".", "1", "/", "x">>
UrlLoopback6 == <<"h", "t", "t", "p", ":", "/", "/", "[", ":", ":", "1", "]", "/", "x">>
UrlNotAUrl == <<"n", "o", "t", " ", "a", " ", "u", "r", "l">>
UrlPublic4 == <<"h", "t", "t", "p", ":", "/", "/", "8", ".", "8", ".", "8", ".", "8", "/", "x">>
UrlPrivate4 == <<"h", "t", "t", "p", ":", "/", "/", "1", "0", ".", "0", ".", "0", ".", "1", "/", "x">>
UrlDomain == <<"h", "t", "t", "p", ":", "/", "/", "a", ".", "i", "o", "/", "x">>
UrlNoNetloc == <<"h", "t", "t", "p", ":", "/", "/", "/", "x">>
UrlNoScheme == <<"/", "/", "a", ".", "i", "o", "/", "x">>
UrlBadBracket == <<"h", "t", "t", "p", ":", "/", "/", "[", ":", ":", "1", "/", "x">>
UrlLoopbackPort == <<"h", "t", "t", "p", ":", "/", "/", "1", "2", "7", ".", "0", ".", "0", ".", "1", ":", "8", "0", "/", "x">>
UrlPrivateUser == <<"h", "t", "t", "p", ":", "/", "/", "u", "@", "1", "0", ".", "0", ".", "0", ".", "1", "/", "x">>
UrlPathOnly == <<"/", "x">>

Urls ==
    { UrlLoopback4, UrlLoopback6, UrlNotAUrl, UrlPublic4, UrlPrivate4, UrlDomain,
      UrlNoNetloc, UrlNoScheme, UrlBadBracket, UrlLoopbackPort, UrlPrivateUser,
      UrlPathOnly }

Public4 == <<"8", ".", "8", ".", "8", ".", "8">>
Private4 == <<"1", "0", ".", "0", ".", "0", ".", "1">>
Loopback4 == <<"1", "2", "7", ".", "0", ".", "0", ".", "1">>

\* answers of the resolver to an A and to an AAAA lookup
AnswersA == { NoRecords, Records(<<Public4>>), Records(<<Private4>>), Records(<<Public4, Loopback4>>) }
AnswersAAAA == { NoRecords, Records(<<Global6>>), Records(<<Loopback6>>), Records(<<Global6, Private6>>) }

NoDns == [A |-> NoRecords, AAAA |-> NoRecords]

\* one call of is_safe_url(url) under either setting of allow_non_public_ip
InitUrl ==
    /\ url \in Urls
    /\ allow_non_public_ip \in BOOLEAN
    /\ dns = NoDns
    /\ urlPc = "is_safe_url"
    /\ urlResult = FALSE
    /\ dnsQueries = 0
    /\ store = <<>>
    /\ store0 = <<>>
    /\ incCalls = [a \in Identity |-> 0]
    /\ accepted = [s \in Signatures |-> 0]
    /\ started = 0
    /\ req = [w \in Workers |-> IdleReq]
    /\ InitFetchIdle

\* is_safe_url lines 22-27: the schema check, before any lookup
is_safe_url_enter ==
    /\ urlPc = "is_safe_url"
    /\ IF ~is_safe_schema(url)
       THEN urlPc' = "done" /\ urlResult' = FALSE
       ELSE urlPc' = "get_records_A" /\ UNCHANGED urlResult
    /\ UNCHANGED <<url, dns, allow_non_public_ip, dnsQueries>>
    /\ UNCHANGED <<nonceVars, fetchVars>>

\* is_safe_domain line 66: _get_records(domain, "A")
get_records_A ==
    /\ urlPc = "get_records_A"
    /\ \E answer \in AnswersA : dns' = [dns EXCEPT !.A = answer]
    /\ dnsQueries' = dnsQueries + 1
    /\ urlPc' = "get_records_AAAA"
    /\ UNCHANGED <<url, allow_non_public_ip, urlResult>>
    /\ UNCHANGED <<nonceVars, fetchVars>>

\* is_safe_domain line 67: _get_records(domain, "AAAA")
get_records_AAAA ==
    /\ urlPc = "get_records_AAAA"
    /\ \E answer \in AnswersAAAA : dns' = [dns EXCEPT !.AAAA = answer]
    /\ dnsQueries' = dnsQueries + 1
    /\ urlPc' = "validate"
    /\ UNCHANGED <<url, allow_non_public_ip, urlResult>>
    /\ UNCHANGED <<nonceVars, fetchVars>>

\* is_safe_domain lines 69-76: the validation of the answers and of the literal
is_safe_domain_validate ==
    /\ urlPc = "validate"
    /\ urlResult' = is_safe_domain(urlparse(url).netloc, dns.A, dns.AAAA, allow_non_public_ip)
    /\ urlPc' = "done"
    /\ UNCHANGED <<url, dns, allow_non_public_ip, dnsQueries>>
    /\ UNCHANGED <<nonceVars, fetchVars>>

NextUrl ==
    \/ is_safe_url_enter
    \/ get_records_A
    \/ get_records_AAAA
    \/ is_safe_domain_validate

SpecUrl == InitUrl /\ [][NextUrl]_vars

---------------------------------------------------------------------------
(* Claims on is_safe_url *)

UrlDone == urlPc = "done"

LoopbackLiteralUrls == {UrlLoopback4, UrlLoopback6}

\* C7: with allow_non_public_ip off, a finished call of is_safe_url on
\* http://127.0.0.1/x or on http://[::1]/x has answered False, whatever the
\* resolver answered to the A and AAAA lookups
C7_LoopbackLiteralsUnsafe ==
    (UrlDone /\ ~allow_non_public_ip /\ url \in LoopbackLiteralUrls) => ~urlResult

\* C8: with allow_non_public_ip on, a finished call of is_safe_url on
\* http://127.0.0.1/x or on http://[::1]/x has answered True
C8_OverrideAcceptsLoopback ==
    (UrlDone /\ allow_non_public_ip /\ url \in LoopbackLiteralUrls) => urlResult

\* the URL parses and both its scheme and its network location are empty
SchemeAndNetlocMissing(u) ==
    LET result == urlparse(u) IN
    result.ok /\ result.scheme = <<>> /\ result.netloc = <<>>

\* C9: for a URL whose parsed scheme and network location are both missing no
\* lookup is ever made, and the finished call has answered False
C9_MalformedRejectedWithoutDns ==
    SchemeAndNetlocMissing(url) =>
        /\ dnsQueries = 0
        /\ urlPc \in {"is_safe_url", "done"}
        /\ (UrlDone => ~urlResult)

\* "not a url" and /x have both been answered False without any lookup; this
\* state is the one for "not a url"
C9_Witness ==
    /\ url = UrlNotAUrl
    /\ SchemeAndNetlocMissing(url)
    /\ UrlDone
    /\ ~urlResult
    /\ dnsQueries = 0

\* an address text that ipaddress accepts and finds neither private, reserved
\* nor loopback
PublicAddress(t) == ip_address(t).valid /\ ~ip_address(t).nonpublic

AllPublic(records) ==
    records.found => \A i \in 1..Len(records.recs) : PublicAddress(records.recs[i])

HasSchemeAndNetloc(u) ==
    LET result == urlparse(u) IN
    result.ok /\ result.scheme # <<>> /\ result.netloc # <<>>

\* C10: with allow_non_public_ip off, a finished call of is_safe_url has
\* answered True exactly when the URL has a scheme and a netloc, every A record
\* and every AAAA record the resolver gave is a public address, and the host,
\* when it is a numeric literal, is itself a public address
C10_SafeIffAllPublic ==
    (UrlDone /\ ~allow_non_public_ip) =>
        (urlResult <=>
            /\ HasSchemeAndNetloc(url)
            /\ AllPublic(dns.A)
            /\ AllPublic(dns.AAAA)
            /\ (is_ip(urlparse(url).netloc) => PublicAddress(urlparse(url).netloc)))

\* the host of the URL, once the schema check has passed
Host == urlparse(url).netloc

ValidRecords(records) ==
    records.found => \A i \in 1..Len(records.recs) : ip_address(records.recs[i]).valid

NonPublicRecord(records) ==
    records.found /\ \E i \in 1..Len(records.recs) : ip_address(records.recs[i]).nonpublic

\* C11: with allow_non_public_ip on, a finished check of a host that is not a
\* numeric literal and whose A and AAAA records are all valid addresses has
\* answered True, whichever of the records are private, reserved or loopback
C11_OverrideAcceptsNonPublicRecords ==
    ( /\ UrlDone /\ allow_non_public_ip
      /\ HasSchemeAndNetloc(url) /\ ~is_ip(Host)
      /\ ValidRecords(dns.A) /\ ValidRecords(dns.AAAA) ) => urlResult

\* a domain with a private A record and a loopback AAAA record, accepted
C11_Witness ==
    /\ UrlDone /\ allow_non_public_ip
    /\ url = UrlDomain
    /\ NonPublicRecord(dns.A) /\ NonPublicRecord(dns.AAAA)
    /\ urlResult

C13_LiteralClassifiedAsAddress ==
    (UrlDone /\ ~allow_non_public_ip /\ dns = NoDns) =>
        /\ (url = UrlPublic4 => urlResult)
        /\ (url = UrlPrivate4 => ~urlResult)

---------------------------------------------------------------------------
(* utils/url.py: check_url_details and _get_result_from_url *)

MaxBody == 2
MaxChunk == 2

\* Python's None, as headers.get returns it for an absent header
None == <<"None">>

\* truth value of a header value or of a derived string
Truthy(v) == v # None /\ v # <<>>

\* str.split(sep) for a one-character separator
RECURSIVE Split(_, _)
Split(t, sep) ==
    LET i == Find(t, {sep}, 1) IN
    IF i = 0 THEN <<t>>
    ELSE <<SubSeq(t, 1, i - 1)>> \o Split(SubSeq(t, i + 1, Len(t)), sep)

CtPlain == <<"t", "/", "p">>
CtWithParam == <<"t", "/", "p", ";", "q">>
CtOnlyParam == <<";", "q">>
ClNine == <<"9">>
CrRange == <<"0", "-", "8", "/", "9">>
CrNoDash == <<"x">>

Bytes == {"a", "b"}
Bodies == UNION { [1..n -> Bytes] : n \in 0..MaxBody }

ProbeStatuses == {200, 204, 404}

\* result.headers of an upstream response, by header name
ProbeHeaders ==
    [ ContentType : {None, CtPlain, CtWithParam, CtOnlyParam},
      ContentLength : {None, ClNine},
      ContentRange : {None, CrRange, CrNoDash} ]

Headers(ct, cl, cr) == [ContentType |-> ct, ContentLength |-> cl, ContentRange |-> cr]

\* what requests.head and requests.options can answer
ProbeResponses ==
    [ status_code : {200, 404},
      headers : { Headers(None, None, None), Headers(CtPlain, ClNine, None),
                  Headers(CtPlain, None, None), Headers(None, ClNine, None),
                  Headers(None, ClNine, CrRange) },
      body : {<<>>} ]

\* what a streamed requests.get can answer, with the bodies it may carry
GetResponses(bodies) == [status_code : ProbeStatuses, headers : ProbeHeaders, body : bodies]

NoResponse == [status_code |-> 0, headers |-> Headers(None, None, None), body |-> <<>>]

EmptyDict == [k \in {} |-> <<>>]

\* hashlib.sha256: the object holds the bytes fed to it so far and the digest
\* is a function of those bytes alone; distinct messages get distinct digests
sha256 == <<>>
\* a faulty update that forgets what was fed before
sha_update_last(sha, chunk) == chunk
sha_update(sha, chunk) == sha \o chunk
sha_hexdigest(sha) == <<"sha256(">> \o sha \o <<")">>

\* the chunk iter_content hands out next
NextChunk(rest, chunk_size) ==
    SubSeq(rest, 1, IF Len(rest) < chunk_size THEN Len(rest) ELSE chunk_size)

\* a faulty test that looks at the status alone
early_return_on_status(result, with_checksum) ==
    ~with_checksum /\ result.status_code = 200

\* the test of _get_result_from_url lines 178-186 on a head or options response
early_return(result, with_checksum) ==
    /\ ~with_checksum
    /\ result.status_code = 200
    /\ (Truthy(result.headers.ContentType) \/ Truthy(result.headers.ContentRange))
    /\ Truthy(result.headers.ContentLength)

NotReturned == [returned |-> FALSE, ok |-> FALSE, details |-> EmptyDict]
Returned(ok, details) == [returned |-> TRUE, ok |-> ok, details |-> details]

\* check_url_details lines 136-163 on the selected response: the details, or
\* EmptyDict when line 167 is reached
content_length_of(result) ==
    LET content_length == result.headers.ContentLength
        content_range == result.headers.ContentRange
    IN IF ~Truthy(content_length) /\ Truthy(content_range)
       THEN (IF Len(Split(content_range, "-")) >= 2
             THEN Split(content_range, "-")[2] ELSE content_length)
       ELSE content_length

content_type_of(result) ==
    LET content_type == result.headers.ContentType
    IN IF Truthy(content_type) THEN Split(content_type, ";")[1] ELSE content_type

OrEmpty(v) == IF Truthy(v) THEN v ELSE <<>>

\* a faulty result that reports details for any status
url_details_any_status(result, extra_data) ==
    LET content_type == content_type_of(result)
        content_length == content_length_of(result)
    IN IF Truthy(content_type) \/ Truthy(content_length)
       THEN Returned(TRUE, extra_data @@ [contentLength |-> OrEmpty(content_length),
                                          contentType |-> OrEmpty(content_type)])
       ELSE Returned(FALSE, EmptyDict)

url_details(result, extra_data) ==
    LET content_type == content_type_of(result)
        content_length == content_length_of(result)
    IN IF result.status_code = 200 /\ (Truthy(content_type) \/ Truthy(content_length))
       THEN Returned(TRUE, extra_data @@ [contentLength |-> OrEmpty(content_length),
                                          contentType |-> OrEmpty(content_type)])
       ELSE Returned(FALSE, EmptyDict)

\* the RequestException handler of check_url_details, lines 164-167
RequestException(p) == [p EXCEPT !.pc = "done", !.out = Returned(FALSE, EmptyDict)]

\* a request has been issued: its method, and whether it raised
Issued(p, method, raised) == [p EXCEPT !.log = Append(@, [method |-> method, raised |-> raised])]

ProbeUrls == {UrlDomain, UrlNotAUrl, UrlPublic4}
ProbeDns == {NoDns, [A |-> Records(<<Private4>>), AAAA |-> NoRecords]}

InitProbe ==
    /\ url \in ProbeUrls
    /\ dns \in ProbeDns
    /\ allow_non_public_ip \in BOOLEAN
    /\ urlPc = "off"
    /\ urlResult = FALSE
    /\ dnsQueries = 0
    /\ store = <<>>
    /\ store0 = <<>>
    /\ incCalls = [a \in Identity |-> 0]
    /\ accepted = [s \in Signatures |-> 0]
    /\ started = 0
    /\ req = [w \in Workers |-> IdleReq]
    /\ dl = NoCall
    /\ order = NoCall
    /\ \E with_checksum \in BOOLEAN, chunk_size \in 1..MaxChunk :
        probe = [pc |-> "check_url_details", with_checksum |-> with_checksum,
                 chunk_size |-> chunk_size, log |-> <<>>, head |-> NoResponse,
                 options |-> NoResponse, result |-> NoResponse, extra_data |-> EmptyDict,
                 sha |-> sha256, rest |-> <<>>, out |-> NotReturned]

ProbeFrame == UNCHANGED <<nonceVars, urlVars, dl, order>>

\* check_url_details lines 130-132: the safety check before any request
check_url_details_enter ==
    /\ probe.pc = "check_url_details"
    /\ probe' = IF ~is_safe_url(url, dns.A, dns.AAAA, allow_non_public_ip)
                THEN [probe EXCEPT !.pc = "done", !.out = Returned(FALSE, EmptyDict)]
                ELSE [probe EXCEPT !.pc = "head"]
    /\ ProbeFrame

\* one turn of the loop of _get_result_from_url, lines 174-187
probe_method(method, after) ==
    /\ probe.pc = method
    /\ \/ probe' = RequestException(Issued(probe, method, TRUE))
       \/ \E result \in ProbeResponses :
            LET p == [Issued(probe, method, FALSE) EXCEPT !.result = result, ![method] = result] IN
            probe' = IF early_return(result, probe.with_checksum)
                     THEN [p EXCEPT !.pc = "details", !.extra_data = EmptyDict]
                     ELSE [p EXCEPT !.pc = after]
    /\ ProbeFrame

probe_head == probe_method("head", "options")

probe_options ==
    probe_method("options", IF probe.with_checksum THEN "get_checksum" ELSE "get")

\* _get_result_from_url lines 189-191: the fallback streamed GET, whose body
\* is left unread
probe_get ==
    /\ probe.pc = "get"
    /\ \/ probe' = RequestException(Issued(probe, "get", TRUE))
       \/ \E result \in GetResponses({<<>>}) :
            probe' = [Issued(probe, "get", FALSE) EXCEPT
                        !.result = result, !.extra_data = EmptyDict, !.pc = "details"]
    /\ ProbeFrame

\* _get_result_from_url lines 193-196: sha256(), the streamed GET and raise_for_status
probe_get_checksum ==
    /\ probe.pc = "get_checksum"
    /\ \/ probe' = RequestException(Issued(probe, "get", TRUE))
       \/ \E r \in GetResponses(Bodies) :
            LET p == [Issued(probe, "get", FALSE) EXCEPT !.result = r, !.sha = sha256] IN
            probe' = IF r.status_code >= 400
                     THEN RequestException(p)
                     ELSE [p EXCEPT !.pc = "iter_content", !.rest = r.body]
    /\ ProbeFrame

\* _get_result_from_url lines 197-200: one chunk into the hash, a read that
\* fails, or the return once the body is exhausted
probe_iter_content ==
    /\ probe.pc = "iter_content"
    /\ IF probe.rest = <<>>
       THEN probe' = [probe EXCEPT
                        !.pc = "details",
                        !.extra_data = [checksum |-> sha_hexdigest(probe.sha),
                                        checksumType |-> <<"sha256">>]]
       ELSE \/ probe' = RequestException(probe)
            \/ LET chunk == NextChunk(probe.rest, probe.chunk_size) IN
               probe' = [probe EXCEPT
                            !.sha = sha_update(@, chunk),
                            !.rest = SubSeq(@, Len(chunk) + 1, Len(@))]
    /\ ProbeFrame

\* check_url_details lines 134-167 on what _get_result_from_url returned
check_url_details_result ==
    /\ probe.pc = "details"
    /\ probe' = [probe EXCEPT !.pc = "done", !.out = url_details(probe.result, probe.extra_data)]
    /\ ProbeFrame

NextProbe ==
    \/ check_url_details_enter
    \/ probe_head
    \/ probe_options
    \/ probe_get
    \/ probe_get_checksum
    \/ probe_iter_content
    \/ check_url_details_result

SpecProbe == InitProbe /\ [][NextProbe]_vars

---------------------------------------------------------------------------
(* Claims on check_url_details and _get_result_from_url *)

Methods(log) == [i \in 1..Len(log) |-> log[i].method]

IsPrefix(a, b) == Len(a) <= Len(b) /\ a = SubSeq(b, 1, Len(a))

\* the n-th request of the probe was issued and answered
Answered(n) == Len(probe.log) >= n /\ ~probe.log[n].raised

\* _get_result_from_url has returned to check_url_details
ProbeReturned == probe.pc = "details" \/ (probe.pc = "done" /\ probe.out.ok)

\* status 200, a Content-Length, and a Content-Type or a Content-Range
Suffices(r) ==
    /\ r.status_code = 200
    /\ r.headers.ContentLength \notin {None, <<>>}
    /\ (r.headers.ContentType \notin {None, <<>>} \/ r.headers.ContentRange \notin {None, <<>>})

C15_ChecksumOverWholeBody ==
    probe.with_checksum =>
        /\ IsPrefix(Methods(probe.log), <<"head", "options", "get">>)
        /\ (Answered(1) /\ Answered(2) /\ probe.pc \in {"details", "done"}) =>
                Len(probe.log) = 3
        /\ ProbeReturned =>
                /\ Answered(3)
                /\ probe.extra_data = [checksum |-> sha_hexdigest(probe.result.body),
                                       checksumType |-> <<"sha256">>]

\* a two-byte body hashed in two chunks after a head answer that would have
\* sufficed without checksum
C15_Witness ==
    /\ probe.with_checksum
    /\ probe.pc = "details"
    /\ Suffices(probe.head)
    /\ probe.chunk_size = 1
    /\ probe.result.body = <<"a", "b">>
    /\ probe.extra_data.checksum = sha_hexdigest(<<"a", "b">>)

\* the response has a Content-Type whose media type is not empty
YieldsType(r) ==
    /\ r.headers.ContentType \notin {None, <<>>}
    /\ r.headers.ContentType[1] # ";"

\* the response has a Content-Length, or a Content-Range with text after its
\* first dash
YieldsLength(r) ==
    \/ r.headers.ContentLength \notin {None, <<>>}
    \/ /\ r.headers.ContentRange \notin {None, <<>>}
       /\ \E i \in 1..(Len(r.headers.ContentRange) - 1) :
            /\ r.headers.ContentRange[i] = "-"
            /\ \A k \in 1..(i - 1) : r.headers.ContentRange[k] # "-"
            /\ r.headers.ContentRange[i + 1] # "-"

\* a response was selected: the last request was answered and, with
\* checksum, its body was read to the end
Selected ==
    /\ probe.log # <<>>
    /\ ~probe.log[Len(probe.log)].raised
    /\ probe.rest = <<>>
    /\ (probe.with_checksum => Len(probe.log) = 3 /\ probe.result.status_code < 400)
    /\ (~probe.with_checksum /\ Len(probe.log) < 3 => Suffices(probe.result))

\* C16: a finished check_url_details has returned (True, details) with both
\* contentType and contentLength exactly when the URL is safe and the selected
\* response has status 200 and yields a content type or a length, and has
\* returned (False, {}) otherwise, a failed request included
C16_TwoResultShapes ==
    probe.pc = "done" =>
        /\ probe.out.returned
        /\ probe.out.ok => {"contentType", "contentLength"} \subseteq DOMAIN probe.out.details
        /\ ~probe.out.ok => probe.out.details = EmptyDict
        /\ probe.out.ok <=>
                /\ is_safe_url(url, dns.A, dns.AAAA, allow_non_public_ip)
                /\ Selected
                /\ probe.result.status_code = 200
                /\ (YieldsType(probe.result) \/ YieldsLength(probe.result))

\* a fallback get answered 200 with a Content-Range only: the length is taken
\* from the range
C16_Witness ==
    /\ probe.pc = "done" /\ probe.out.ok
    /\ Methods(probe.log) = <<"head", "options", "get">>
    /\ probe.result.headers = Headers(None, None, CrRange)
    /\ probe.out.details = [contentLength |-> <<"8", "/", "9">>, contentType |-> <<>>]

---------------------------------------------------------------------------
(* utils/util.py: build_download_response *)

\* str.strip() of spaces
RECURSIVE Strip(_)
Strip(t) ==
    IF t = <<>> THEN t
    ELSE IF t[1] = " " THEN Strip(Tail(t))
    ELSE IF t[Len(t)] = " " THEN Strip(SubSeq(t, 1, Len(t) - 1))
    ELSE t

\* str.rfind of one character, 0 if absent
LastIndex(t, c) ==
    IF \E i \in 1..Len(t) : t[i] = c
    THEN CHOOSE i \in 1..Len(t) : t[i] = c /\ \A k \in (i + 1)..Len(t) : t[k] # c
    ELSE 0

IsNumber(t) == t # <<>> /\ \A i \in 1..Len(t) : t[i] \in Digits

\* request.range: werkzeug's parse of a Range header holding one range item;
\* FALSE stands for the None it gives when the header is absent or malformed
has_range(value) ==
    /\ value # None
    /\ Contains(value, "=")
    /\ LET rng == Strip(SubSeq(value, Find(value, {"="}, 1) + 1, Len(value)))
           dash == Find(rng, {"-"}, 1)
           begin == Strip(SubSeq(rng, 1, dash - 1))
           end == Strip(SubSeq(rng, dash + 1, Len(rng)))
       IN /\ dash > 0
          /\ IF dash = 1 THEN IsNumber(end)
             ELSE /\ IsNumber(begin)
                  /\ end = <<>> \/ (IsNumber(end) /\ Decimal(begin) < Decimal(end) + 1)

\* cgi.parse_header(line)[1].get("filename"): the value of the last filename
\* parameter, unquoted, or None
unquote(v) ==
    IF Len(v) >= 2 /\ v[1] = "\"" /\ v[Len(v)] = "\"" THEN SubSeq(v, 2, Len(v) - 1) ELSE v

param_name(part) == Strip(SubSeq(part, 1, Find(part, {"="}, 1) - 1))

param_value(part) == unquote(Strip(SubSeq(part, Find(part, {"="}, 1) + 1, Len(part))))

content_filename(line) ==
    LET parts == Split(line, ";")
        named == { i \in 2..Len(parts) :
                     Contains(parts[i], "=") /\ param_name(parts[i]) = <<"f", "i", "l", "e", "n", "a", "m", "e">> }
    IN IF named = {} THEN None
       ELSE param_value(parts[CHOOSE i \in named : \A k \in named : k <= i])

\* url.split("/")[-1]
last_segment(u) == SubSeq(u, LastIndex(u, "/") + 1, Len(u))

\* os.path.splitext(filename)[1]
file_ext_of(filename) ==
    LET sep == LastIndex(filename, "/")
        dot == LastIndex(filename, ".")
    IN IF dot > sep /\ \E k \in (sep + 1)..(dot - 1) : filename[k] # "."
       THEN SubSeq(filename, dot, Len(filename))
       ELSE <<>>

ExtTxt == <<".", "t", "x", "t">>
ExtCsv == <<".", "c", "s", "v">>
TextPlain == <<"t", "e", "x", "t", "/", "p", "l", "a", "i", "n">>
TextCsv == <<"t", "e", "x", "t", "/", "c", "s", "v">>

\* mimetypes.guess_type(filename)[0], for the types this model uses
guess_type(filename) ==
    LET ext == file_ext_of(filename) IN
    IF ext = ExtTxt THEN TextPlain
    ELSE IF ext = ExtCsv THEN TextCsv
    ELSE None

\* mimetypes.guess_extension(type), for the types this model uses
guess_extension(type) ==
    IF type = TextPlain THEN ExtTxt
    ELSE IF type = TextCsv THEN ExtCsv
    ELSE None

AttachmentFilename == <<"a", "t", "t", "a", "c", "h", "m", "e", "n", "t", ";", "f", "i", "l", "e", "n", "a", "m", "e", "=">>

\* the headers of lines 87-91
attachment_headers(filename) ==
    ("Content-Disposition" :> (AttachmentFilename \o filename))
    @@ ("Access-Control-Expose-Headers" :> <<"C", "o", "n", "t", "e", "n", "t", "-", "D", "i", "s", "p", "o", "s", "i", "t", "i", "o", "n">>)
    @@ ("Connection" :> <<"c", "l", "o", "s", "e">>)

\* a faulty derivation that never looks at the upstream Content-Disposition
derived_filename_url_only(u, response) == last_segment(u)

\* lines 65-72: the name from the url, or from the upstream Content-Disposition
derived_filename(u, response) ==
    LET content_disposition_header == response.headers.ContentDisposition IN
    IF Truthy(content_disposition_header)
       /\ Truthy(content_filename(content_disposition_header))
    THEN content_filename(content_disposition_header)
    ELSE last_segment(u)

\* lines 74-76
derived_content_type(response, content_type) ==
    IF Truthy(response.headers.ContentType) THEN response.headers.ContentType ELSE content_type

\* a faulty reconciliation that leaves both as they were derived
reconciled_never(filename, content_type) ==
    [filename |-> filename, content_type |-> content_type]

\* lines 78-85: [filename, content_type] after the reconciliation
reconciled(filename, content_type) ==
    LET file_ext == file_ext_of(filename) IN
    IF Truthy(file_ext) /\ ~Truthy(content_type)
    THEN [filename |-> filename, content_type |-> guess_type(filename)]
    ELSE IF ~Truthy(file_ext) /\ Truthy(content_type)
    THEN [filename |-> IF Truthy(guess_extension(content_type))
                       THEN filename \o guess_extension(content_type) ELSE filename,
          content_type |-> content_type]
    ELSE [filename |-> filename, content_type |-> content_type]

\* a faulty request that always asks upstream for the whole body
download_request_headers_empty(range) == EmptyDict

\* lines 53-59: the headers sent upstream
download_request_headers(range) ==
    IF has_range(range) THEN ("Range" :> range) ELSE EmptyDict

\* a faulty response that attaches the download headers on every path
download_response_always_attach(u, range, response, content_type) ==
    LET r == reconciled(derived_filename(u, response),
                        derived_content_type(response, content_type))
    IN [returned |-> TRUE, raised |-> FALSE, status_code |-> response.status_code,
        headers |-> attachment_headers(r.filename), content_type |-> r.content_type]

\* lines 64-103: the Response built from the upstream response
download_response(u, range, response, content_type) ==
    IF has_range(range)
    THEN [returned |-> TRUE, raised |-> FALSE, status_code |-> response.status_code,
          headers |-> download_request_headers(range), content_type |-> content_type]
    ELSE LET r == reconciled(derived_filename(u, response),
                             derived_content_type(response, content_type))
         IN [returned |-> TRUE, raised |-> FALSE, status_code |-> response.status_code,
             headers |-> attachment_headers(r.filename), content_type |-> r.content_type]

NoOutcome == [returned |-> FALSE, raised |-> FALSE, status_code |-> 0,
              headers |-> EmptyDict, content_type |-> None]

\* lines 104-106: the exception is logged and raised again
Raised == [NoOutcome EXCEPT !.raised = TRUE]

UrlFileTxt == <<"h", "t", "t", "p", ":", "/", "/", "a", ".", "i", "o", "/", "d", ".", "t", "x", "t">>
UrlFileCsv == <<"h", "t", "t", "p", ":", "/", "/", "a", ".", "i", "o", "/", "r", ".", "c", "s", "v">>

DownloadUrls == {UrlDomain, UrlFileTxt, UrlFileCsv, UrlNotAUrl}

\* the generated download url: the url itself or the url with userdata appended
UserdataQuery == <<"?", "u", "=", "1">>

\* a url on another host, as a storage plugin may generate for the asset url
UrlGenerated == <<"h", "t", "t", "p", ":", "/", "/", "1", "0", ".", "0", ".", "0", ".", "1", "/", "x">>

\* what get_download_url and append_userdata can hand to build_download_response
\* for the asset url u
DownloadTargets(u) == {u, u \o UserdataQuery, UrlGenerated}

RangeBytes == <<"b", "y", "t", "e", "s", "=", "0", "-", "9">>
RangeOpen == <<"b", "y", "t", "e", "s", "=", "5", "-">>
RangeBackwards == <<"b", "y", "t", "e", "s", "=", "9", "-", "0">>
RangeNoUnit == <<"0", "-", "9">>
RangeHeaders == {None, RangeBytes, RangeOpen, RangeBackwards, RangeNoUnit}

CdFile == <<"a", "t", "t", "a", "c", "h", "m", "e", "n", "t", ";", "f", "i", "l", "e", "n", "a", "m", "e", "=", "f", ".", "c", "s", "v">>
CdQuoted == <<"a", "t", "t", "a", "c", "h", "m", "e", "n", "t", ";", " ", "f", "i", "l", "e", "n", "a", "m", "e", "=", "\"", "g", "\"">>
CdEmptyFile == <<"a", "t", "t", "a", "c", "h", "m", "e", "n", "t", ";", "f", "i", "l", "e", "n", "a", "m", "e", "=">>
CdNoFile == <<"a", "t", "t", "a", "c", "h", "m", "e", "n", "t">>

DeclaredTypes == {None, TextCsv}

UpstreamHeaders ==
    [ ContentDisposition : {None, CdFile, CdQuoted, CdEmptyFile, CdNoFile},
      ContentType : {None, TextPlain, CtWithParam} ]

UpstreamResponses == [status_code : {200, 206, 404}, headers : UpstreamHeaders]

NoUpstream == [status_code |-> 0,
               headers |-> [ContentDisposition |-> None, ContentType |-> None]]

\* chunk_size of _generate
ChunkSize == 4096

MaxEmptyChunks == 1

\* lengths of the upstream body, in bytes
BodyLengths == {0, 1, ChunkSize + 1, 2 * ChunkSize}

\* the sizes iter_content may give the next chunk when left bytes remain: all
\* that fits in chunk_size, or less when the connection delivered less
ChunkLengths(left) ==
    {IF left < ChunkSize THEN left ELSE ChunkSize}
    \cup {n \in {ChunkSize \div 2} : n < left}

NoReply == [status |-> 0, body |-> NoBody]

\* the two handlers that call build_download_response, with the arguments
\* they pass: /download the asset url, the generated url and the declared
\* type, /computeResult the result url twice and no type
DownloadCalls(u) ==
    [caller : {"download"}, download_url : DownloadTargets(u), content_type : DeclaredTypes]
    \cup [caller : {"computeResult"}, download_url : {u}, content_type : {None}]

InitDownload ==
    /\ url \in DownloadUrls
    /\ dns \in ProbeDns
    /\ allow_non_public_ip \in BOOLEAN
    /\ urlPc = "off"
    /\ urlResult = FALSE
    /\ dnsQueries = 0
    /\ store = <<>>
    /\ store0 = <<>>
    /\ incCalls = [a \in Identity |-> 0]
    /\ accepted = [s \in Signatures |-> 0]
    /\ started = 0
    /\ req = [w \in Workers |-> IdleReq]
    /\ probe = NoCall
    /\ order = NoCall
    /\ \E call \in DownloadCalls(url), range \in RangeHeaders :
        dl = [pc |-> "build_download_response", caller |-> call.caller,
              download_url |-> call.download_url,
              range |-> range, content_type |-> call.content_type,
              checked |-> FALSE, gets |-> <<>>, response |-> NoUpstream, out |-> NoOutcome,
              body |-> 0, sent |-> 0, yielded |-> <<>>, empty |-> 0, stream |-> "none",
              reply |-> NoReply]

DownloadFrame == UNCHANGED <<nonceVars, urlVars, probe, order>>

\* a faulty entry that goes on to the fetch without the safety check
build_download_response_enter_unchecked ==
    /\ dl.pc = "build_download_response"
    /\ dl' = [dl EXCEPT !.pc = "get", !.checked = TRUE]
    /\ DownloadFrame

\* lines 50-59: the safety check, then the request headers
build_download_response_enter ==
    /\ dl.pc = "build_download_response"
    /\ dl' = IF ~is_safe_url(url, dns.A, dns.AAAA, allow_non_public_ip)
             THEN [dl EXCEPT !.pc = "handler", !.checked = TRUE, !.out = Raised]
             ELSE [dl EXCEPT !.pc = "get", !.checked = TRUE]
    /\ DownloadFrame

\* lines 61-63: requests_session.get(download_url, headers=..., stream=True, timeout=3)
build_download_response_get ==
    /\ dl.pc = "get"
    /\ LET sent == [url |-> dl.download_url, headers |-> download_request_headers(dl.range)] IN
       \/ dl' = [dl EXCEPT !.pc = "handler", !.gets = Append(@, sent), !.out = Raised]
       \/ \E response \in UpstreamResponses, body \in BodyLengths :
            dl' = [dl EXCEPT !.pc = "respond", !.gets = Append(@, sent),
                             !.response = response, !.body = body]
    /\ DownloadFrame

\* lines 64-103: the headers for the client and the Response
build_download_response_return ==
    /\ dl.pc = "respond"
    /\ dl' = [dl EXCEPT !.pc = "handler",
                        !.out = download_response(url, dl.range, dl.response, dl.content_type)]
    /\ DownloadFrame

\* a faulty handler that lets the exception of build_download_response escape
download_handler_escapes ==
    /\ dl.pc = "handler"
    /\ dl' = IF dl.out.raised
             THEN [dl EXCEPT !.pc = "done", !.reply = [status |-> 500, body |-> NoBody]]
             ELSE [dl EXCEPT !.pc = "generate",
                             !.reply = [status |-> dl.out.status_code, body |-> NoBody]]
    /\ DownloadFrame

\* consume.py 368-382 and compute.py 415-428: the handler returns the
\* Response, or service_unavailable for the exception it caught
download_handler ==
    /\ dl.pc = "handler"
    /\ dl' = IF dl.out.raised
             THEN [dl EXCEPT !.pc = "done",
                             !.reply = [status |-> 503, body |-> service_unavailable_body]]
             ELSE [dl EXCEPT !.pc = "generate",
                             !.reply = [status |-> dl.out.status_code, body |-> NoBody]]
    /\ DownloadFrame

\* a faulty generator that reads the rest of the body as one chunk
generate_whole_body ==
    /\ dl.pc = "generate"
    /\ dl' = IF dl.sent = dl.body
             THEN [dl EXCEPT !.pc = "done", !.stream = "complete"]
             ELSE [dl EXCEPT !.sent = dl.body,
                             !.yielded = Append(@, [from |-> dl.sent, to |-> dl.body])]
    /\ DownloadFrame

\* lines 93-96, _generate as the server drains it: the next chunk of
\* iter_content is yielded unless it is empty; the iteration ends with the
\* body, or with a failed read
generate ==
    /\ dl.pc = "generate"
    /\ \/ /\ dl.empty < MaxEmptyChunks
          /\ dl' = [dl EXCEPT !.empty = @ + 1]
       \/ /\ dl.sent = dl.body
          /\ dl' = [dl EXCEPT !.pc = "done", !.stream = "complete"]
       \/ /\ dl.sent < dl.body
          /\ \/ dl' = [dl EXCEPT !.pc = "done", !.stream = "failed"]
             \/ \E n \in ChunkLengths(dl.body - dl.sent) :
                  dl' = [dl EXCEPT !.sent = @ + n,
                                   !.yielded = Append(@, [from |-> dl.sent, to |-> dl.sent + n])]
    /\ DownloadFrame

NextDownload ==
    \/ build_download_response_enter
    \/ build_download_response_get
    \/ build_download_response_return
    \/ download_handler
    \/ generate

SpecDownload == InitDownload /\ [][NextDownload]_vars

---------------------------------------------------------------------------
(* Claims on build_download_response *)

UrlIsSafe == is_safe_url(url, dns.A, dns.AAAA, allow_non_public_ip)

DownloadDone == dl.pc = "done"

\* C17: an upstream GET is issued only after the safety check and only for a
\* url that is_safe_url accepted; a finished call on an unsafe url has raised,
\* returned no Response and issued no GET
C17_UnsafeNeverFetched ==
    /\ dl.gets # <<>> => (dl.checked /\ UrlIsSafe)
    /\ (DownloadDone /\ ~UrlIsSafe) =>
            /\ dl.out.raised
            /\ ~dl.out.returned
            /\ dl.gets = <<>>

\* a domain with a private A record, refused without a request
C17_Witness ==
    /\ DownloadDone
    /\ url = UrlDomain /\ ~allow_non_public_ip /\ NonPublicRecord(dns.A)
    /\ ~UrlIsSafe
    /\ dl.out.raised /\ dl.gets = <<>>

RangeOnly(value) == ("Range" :> value)

\* the Range header values that name a byte range
WellFormedRanges == {RangeBytes, RangeOpen}

\* C18 as stated: whenever the client request carries a Range header, each
\* upstream GET carries exactly that header, and the Response has the upstream
\* status and the Range header as its only header
C18_RangeHeaderForwarded ==
    dl.range # None =>
        /\ \A i \in 1..Len(dl.gets) : dl.gets[i].headers = RangeOnly(dl.range)
        /\ dl.out.returned =>
                /\ dl.out.status_code = dl.response.status_code
                /\ dl.out.headers = RangeOnly(dl.range)

\* C18 amended: a Range header that names a byte range is sent upstream as
\* it came and is the only header of the Response, whose status is the
\* upstream status; a Range header that does not parse is treated as absent:
\* no Range header goes upstream and the Response carries Content-Disposition
C18_ParsedRangeForwarded ==
    /\ dl.range \in WellFormedRanges =>
        /\ \A i \in 1..Len(dl.gets) : dl.gets[i].headers = RangeOnly(dl.range)
        /\ dl.out.returned =>
                /\ dl.out.status_code = dl.response.status_code
                /\ dl.out.headers = RangeOnly(dl.range)
                /\ "Content-Disposition" \notin DOMAIN dl.out.headers
                /\ "Access-Control-Expose-Headers" \notin DOMAIN dl.out.headers
    /\ dl.range \in RangeHeaders \ (WellFormedRanges \cup {None}) =>
        /\ \A i \in 1..Len(dl.gets) : dl.gets[i].headers = EmptyDict
        /\ dl.out.returned =>
                /\ dl.out.status_code = dl.response.status_code
                /\ "Content-Disposition" \in DOMAIN dl.out.headers
                /\ "Range" \notin DOMAIN dl.out.headers

\* bytes=0-9 answered 206 upstream and passed through
C18_Witness ==
    /\ DownloadDone /\ dl.out.returned
    /\ dl.range = RangeBytes
    /\ Len(dl.gets) = 1 /\ dl.gets[1].headers = RangeOnly(RangeBytes)
    /\ dl.response.status_code = 206
    /\ dl.out.status_code = 206
    /\ dl.out.headers = RangeOnly(RangeBytes)

\* C19: without a Range header no Range header goes upstream and the
\* Response has Content-Disposition attachment;filename=<name> and
\* Access-Control-Expose-Headers: Content-Disposition; a Response to a
\* request with a byte range has neither header
C19_AttachmentOnNonRangePath ==
    /\ dl.range = None =>
        /\ \A i \in 1..Len(dl.gets) : "Range" \notin DOMAIN dl.gets[i].headers
        /\ dl.out.returned =>
                /\ "Content-Disposition" \in DOMAIN dl.out.headers
                /\ IsPrefix(AttachmentFilename, dl.out.headers["Content-Disposition"])
                /\ "Access-Control-Expose-Headers" \in DOMAIN dl.out.headers
                /\ dl.out.headers["Access-Control-Expose-Headers"] = <<"C", "o", "n", "t", "e", "n", "t", "-", "D", "i", "s", "p", "o", "s", "i", "t", "i", "o", "n">>
    /\ (dl.out.returned /\ dl.range \in WellFormedRanges) =>
        /\ "Content-Disposition" \notin DOMAIN dl.out.headers
        /\ "Access-Control-Expose-Headers" \notin DOMAIN dl.out.headers

\* a whole-body download of r.csv
C19_Witness ==
    /\ DownloadDone /\ dl.out.returned
    /\ dl.range = None
    /\ url = UrlFileCsv
    /\ Len(dl.gets) = 1 /\ dl.gets[1].headers = EmptyDict
    /\ dl.response.headers.ContentDisposition = None
    /\ dl.out.headers["Content-Disposition"] = <<"a", "t", "t", "a", "c", "h", "m", "e", "n", "t", ";", "f", "i", "l", "e", "n", "a", "m", "e", "=", "r", ".", "c", "s", "v">>

\* the filename the Response announces
ResponseFilename ==
    SubSeq(dl.out.headers["Content-Disposition"], Len(AttachmentFilename) + 1,
           Len(dl.out.headers["Content-Disposition"]))

\* the upstream Content-Disposition headers with a non-empty filename
\* parameter, and that filename
UpstreamFilename ==
    IF dl.response.headers.ContentDisposition = CdFile THEN <<"f", ".", "c", "s", "v">>
    ELSE IF dl.response.headers.ContentDisposition = CdQuoted THEN <<"g">>
    ELSE None

DerivedName == IF UpstreamFilename # None THEN UpstreamFilename ELSE last_segment(url)

DerivedType ==
    IF dl.response.headers.ContentType # None
    THEN dl.response.headers.ContentType ELSE dl.content_type

NonRangeResponse == dl.out.returned /\ dl.range \notin WellFormedRanges

\* C20 as stated: on the non-range path the filename of the Response is the
\* upstream filename parameter when there is a non-empty one and the last
\* segment of the url otherwise, and its content type is the upstream
\* Content-Type when present and the declared type otherwise
C20_FilenameAndTypeDerived ==
    NonRangeResponse =>
        /\ ResponseFilename = DerivedName
        /\ dl.out.content_type = DerivedType

\* C20 amended: the filename of the Response is that derived name, with the
\* extension guessed from the content type appended when the name has none
\* and a guess exists; its content type is the upstream Content-Type when
\* present, else the declared type, else the type guessed from the name
C20_FilenameAndTypeReconciled ==
    NonRangeResponse =>
        /\ ResponseFilename =
                IF file_ext_of(DerivedName) = <<>> /\ DerivedType # None
                   /\ guess_extension(DerivedType) # None
                THEN DerivedName \o guess_extension(DerivedType)
                ELSE DerivedName
        /\ dl.out.content_type =
                IF DerivedType # None THEN DerivedType
                ELSE IF file_ext_of(DerivedName) # <<>> THEN guess_type(DerivedName)
                ELSE None

\* the upstream filename f.csv replaces the x of the url, and the upstream
\* Content-Type replaces the declared one
C20_Witness ==
    /\ DownloadDone /\ NonRangeResponse
    /\ url = UrlDomain
    /\ dl.response.headers.ContentDisposition = CdFile
    /\ dl.response.headers.ContentType = TextPlain
    /\ dl.content_type = TextCsv
    /\ ResponseFilename = <<"f", ".", "c", "s", "v">>
    /\ dl.out.content_type = TextPlain

\* the derived names of this model that end in an extension
NamesWithExtension == {<<"d", ".", "t", "x", "t">>, <<"r", ".", "c", "s", "v">>, <<"f", ".", "c", "s", "v">>}

\* the extension mimetypes has for a content type of this model, None if it has none
ExtensionOfType(type) ==
    IF type = TextPlain THEN ExtTxt ELSE IF type = TextCsv THEN ExtCsv ELSE None

\* the content type mimetypes has for a derived name of this model
TypeOfName(name) ==
    IF name = <<"d", ".", "t", "x", "t">> THEN TextPlain
    ELSE IF name \in {<<"r", ".", "c", "s", "v">>, <<"f", ".", "c", "s", "v">>} THEN TextCsv
    ELSE None

\* C21 as stated: a name without extension gains the extension of the known
\* content type when there is one; for a name with an extension and no
\* upstream Content-Type the content type is the one guessed from the name;
\* otherwise name and content type stay as derived
C21_ReconciliationAsStated ==
    NonRangeResponse =>
        /\ (DerivedName \notin NamesWithExtension /\ DerivedType # None) =>
                /\ ResponseFilename =
                        IF ExtensionOfType(DerivedType) # None
                        THEN DerivedName \o ExtensionOfType(DerivedType) ELSE DerivedName
                /\ dl.out.content_type = DerivedType
        /\ (DerivedName \in NamesWithExtension /\ dl.response.headers.ContentType = None) =>
                /\ ResponseFilename = DerivedName
                /\ dl.out.content_type = TypeOfName(DerivedName)
        /\ (DerivedName \in NamesWithExtension <=> DerivedType # None) =>
                /\ ResponseFilename = DerivedName
                /\ dl.out.content_type = DerivedType

\* C21 amended: the content type is guessed from the name only when the name
\* has an extension and neither the upstream response nor the caller gave a
\* content type; the other two cases as stated
C21_ReconciliationWhenTypeUnknown ==
    NonRangeResponse =>
        /\ (DerivedName \notin NamesWithExtension /\ DerivedType # None) =>
                /\ ResponseFilename =
                        IF ExtensionOfType(DerivedType) # None
                        THEN DerivedName \o ExtensionOfType(DerivedType) ELSE DerivedName
                /\ dl.out.content_type = DerivedType
        /\ (DerivedName \in NamesWithExtension /\ DerivedType = None) =>
                /\ ResponseFilename = DerivedName
                /\ dl.out.content_type = TypeOfName(DerivedName)
        /\ (DerivedName \in NamesWithExtension <=> DerivedType # None) =>
                /\ ResponseFilename = DerivedName
                /\ dl.out.content_type = DerivedType

\* r.csv with no upstream and no declared content type comes out as text/csv
C21_Witness ==
    /\ DownloadDone /\ NonRangeResponse
    /\ url = UrlFileCsv
    /\ dl.response.headers = [ContentDisposition |-> None, ContentType |-> None]
    /\ dl.content_type = None
    /\ ResponseFilename = <<"r", ".", "c", "s", "v">>
    /\ dl.out.content_type = TextCsv

\* the bytes of the upstream body from offset a up to offset b
Chunk(a, b) == [from |-> a, to |-> b]

\* C22: the Response and the reply of the handler carry the upstream status
\* whatever it is; every chunk yielded is non-empty and at most 4096 bytes
\* long, the chunks follow one another in upstream order without gap, and a
\* stream that ran to its end has yielded the whole upstream body
C22_StreamsUpstreamBody ==
    /\ dl.out.returned => dl.out.status_code = dl.response.status_code
    /\ dl.pc \in {"generate", "done"} /\ dl.out.returned =>
            dl.reply.status = dl.response.status_code
    /\ \A i \in 1..Len(dl.yielded) :
            /\ dl.yielded[i].to - dl.yielded[i].from \in 1..4096
            /\ dl.yielded[i].from = IF i = 1 THEN 0 ELSE dl.yielded[i - 1].to
    /\ dl.stream = "complete" =>
            IF dl.body = 0 THEN dl.yielded = <<>>
            ELSE dl.yielded # <<>> /\ dl.yielded[Len(dl.yielded)].to = dl.body

\* a 404 answer of 4097 bytes streamed as 4096 bytes and 1 byte, one empty
\* chunk skipped on the way
C22_Witness ==
    /\ DownloadDone /\ dl.stream = "complete"
    /\ dl.response.status_code = 404 /\ dl.reply.status = 404
    /\ dl.body = 4097
    /\ dl.empty = 1
    /\ dl.yielded = <<Chunk(0, 4096), Chunk(4096, 4097)>>

\* C23: when build_download_response has raised, no Response was returned and
\* nothing of the body was yielded, and the handler that called it, /download
\* or /computeResult, has answered 503 with the error envelope once it is done;
\* an unsafe url and a failed upstream GET both end this way
C23_PreparationErrorsReraised ==
    /\ dl.out.raised =>
            /\ ~dl.out.returned
            /\ dl.yielded = <<>> /\ dl.stream = "none"
            /\ dl.pc \in {"handler", "done"}
    /\ (DownloadDone /\ dl.out.raised) =>
            /\ dl.reply.status = 503
            /\ dl.reply.body = service_unavailable_body
    /\ (DownloadDone /\ (~UrlIsSafe \/ dl.response = NoUpstream)) => dl.out.raised

\* /computeResult whose upstream GET failed
C23_Witness ==
    /\ DownloadDone
    /\ dl.caller = "computeResult"
    /\ UrlIsSafe /\ Len(dl.gets) = 1 /\ dl.response = NoUpstream
    /\ dl.out.raised
    /\ dl.reply = [status |-> 503, body |-> service_unavailable_body]

NonPublicLiteralUrls == {UrlLoopback4, UrlPrivate4, UrlLoopbackPort, UrlPrivateUser}

\* C27: with allow_non_public_ip off, a finished call of is_safe_url on a url
\* whose host is a private or loopback IPv4 literal has answered False, with
\* or without a port or userinfo in the network location, whatever the
\* resolver answered
C27_NonPublicLiteralsUnsafe ==
    (UrlDone /\ ~allow_non_public_ip /\ url \in NonPublicLiteralUrls) => ~urlResult

---------------------------------------------------------------------------
(* Properties of the handlers as a whole *)

\* the outcomes in which a collaborator or a network call of the handler raised
CollaboratorErrors == {"raises", "process_raises", "order_raises", "encrypt_raises"}

CollaboratorRaised(r) == \E i \in 1..Len(r.env) : r.env[i] \in CollaboratorErrors

\* C24: whatever the endpoint, a request in whose handling a collaborator or
\* a network call raised after the request data was read is answered 503 with
\* a body of exactly the keys error and context
C24_CollaboratorErrorsAnswered503 ==
    \A w \in Workers :
        (Done(w) /\ CollaboratorRaised(req[w])) =>
            /\ req[w].status = 503
            /\ req[w].body = service_unavailable_body

\* C25: the step that answers GET /initialize leaves the nonce store as it
\* was; it answers 400 with an error body when the asset is not consumable or
\* the probe of the first download url is not valid, it answers 200 only when
\* both checks passed, and the nonce of the 200 body is the consumer's stored
\* nonce at that moment
C25_InitializeChecksAndReadsNonce ==
    [][ \A w \in Workers :
          (req[w].pc = "initialize" /\ req'[w].pc = "done") =>
            /\ store' = store /\ incCalls' = incCalls /\ req'[w].incs = 0
            /\ req'[w].env \in {<<"not_consumable">>, <<"url_invalid">>} =>
                    /\ req'[w].status = 400
                    /\ req'[w].body = ObjectBody(Dict({"error"}))
            /\ req'[w].status = 200 =>
                    /\ req'[w].env = <<"ok">>
                    /\ "nonce" \in req'[w].body.items[1].keys
                    /\ req'[w].nonceOut = get_nonce(store', req[w].data.addr) ]_vars

\* /initialize answered 200 with the nonce an earlier request had incremented
C25_Witness ==
    \E w \in Workers :
        /\ Done(w) /\ req[w].data.ep = "initialize" /\ req[w].status = 200
        /\ req[w].data.addr \in DOMAIN store0
        /\ incCalls[req[w].data.addr] = 1
        /\ req[w].nonceOut = PersistedNonce + 1
        /\ req[w].incs = 0

\* the endpoints that never write a nonce
ReadOnlyEndpoints == {"nonce", "fileinfo", "initialize"}

\* C28: a step of a handler changes the stored nonce of no identity but the
\* one its request names, and of that one by 1; no request increments more
\* than once; /nonce, /fileinfo, /initialize and an unsigned GET /compute
\* increment nothing; a signed GET /compute that has been through the
\* verification and is answered has incremented exactly once, whether the
\* signature verified or not
C28_OneNonceOneStep ==
    [][ /\ \A a \in Identity :
            get_nonce(store', a) # get_nonce(store, a) =>
                /\ get_nonce(store', a) = get_nonce(store, a) + 1
                /\ \A b \in Identity \ {a} : get_nonce(store', b) = get_nonce(store, b)
                /\ \E w \in Workers :
                      /\ req[w].data.addr = a
                      /\ req'[w].incs = req[w].incs + 1
                      /\ \A v \in Workers \ {w} : req'[v] = req[v]
        /\ \A w \in Workers :
            LET r == req'[w] IN
            /\ r.incs <= 1
            /\ r.data.ep \in ReadOnlyEndpoints => r.incs = 0
            /\ (r.data.ep = "computeStatus" /\ r.data.sig = NoSig) => r.incs = 0
            /\ (r.data.ep = "computeStatus" /\ r.data.sig # NoSig
                    /\ r.readNonce >= 0 /\ r.pc = "done") => r.incs = 1 ]_vars

\* a signed GET /compute whose signature failed against the persisted nonce:
\* the caller's nonce went up by one and the other identity's stayed
C28_Witness ==
    \E w \in Workers :
        LET r == req[w] IN
        /\ Done(w) /\ r.data.ep = "computeStatus" /\ r.data.sig # NoSig
        /\ r.readNonce = PersistedNonce /\ ~r.signed
        /\ r.incs = 1
        /\ get_nonce(store, r.data.addr) = PersistedNonce + 1
        /\ \A b \in Identity \ {r.data.addr} :
                incCalls[b] = 0 /\ get_nonce(store, b) = get_nonce(store0, b)

\* C29: in GET /download the consumable check and the order validation come
\* before increment_nonce and the upstream fetch comes after it: a request
\* refused as not consumable or whose validate_order raised has incremented
\* nothing and fetched nothing, a request at the fetch has incremented once,
\* and the fetch, failing or not, leaves the nonce store as it is: a failing
\* fetch is answered 503 with the nonce still incremented
C29_DownloadOrder ==
    [][ \A w \in Workers :
          LET r == req'[w] IN
          r.data.ep = "download" =>
            /\ (r.env # <<>> /\ r.env[1] \in {"not_consumable", "order_raises"}) =>
                    /\ r.incs = 0
                    /\ r.env \in {<<"not_consumable">>, <<"order_raises">>}
                    /\ r.pc = "done"
                    /\ r.status = IF r.env[1] = "not_consumable" THEN 400 ELSE 503
                    /\ req[w].pc = "download" => store' = store
            /\ (r.pc = "download_fetch" \/ Len(r.env) = 2) =>
                    r.env[1] = "ready" /\ r.incs = 1
            /\ (req[w].pc = "download_fetch" /\ r.pc = "done") =>
                    /\ store' = store
                    /\ r.env[2] = "raises" =>
                            r.status = 503 /\ r.body = service_unavailable_body ]_vars

\* a download of an unseen consumer whose fetch failed: 503 and nonce 1
C29_Witness ==
    \E w \in Workers :
        /\ Done(w) /\ req[w].data.ep = "download" /\ req[w].env = <<"ready", "raises">>
        /\ req[w].status = 503
        /\ req[w].data.addr \notin DOMAIN store0
        /\ get_nonce(store, req[w].data.addr) = 1

---------------------------------------------------------------------------
(* utils/util.py: validate_order *)

\* line 224
num_tries == 3

TxIds == {"0xt1", "0xt2"}
ServiceIds == {"0", "1"}
TokenAmounts == {<<"1">>, <<"a", "b", "c">>}

\* what a call returns or raises
Returns(value) == [kind |-> "return", value |-> value]
Raises(name) == [kind |-> "raise", value |-> <<name>>]
NoReturn == [kind |-> "none", value |-> <<>>]

ConnectionClosed == Raises("ConnectionClosed")

\* to_wei(str(num_tokens)), line 223: raises for a text that is no number
to_wei(num_tokens) ==
    IF IsNumber(num_tokens) THEN Returns(num_tokens) ELSE Raises("ValueError")

\* dt_contract.verify_order_tx(tx_id, did, int(service_id), amount, sender):
\* the tuple tx, order_event, transfer_event for the transaction, a closed
\* connection to the node, or a failed check of the transaction
verify_order_tx(tx_id) ==
    { Returns(<<tx_id, order_event, "Transfer">>) : order_event \in {"OrderStarted", "OrderStarted2"} }
    \cup {ConnectionClosed, Raises("AssertionError"), Raises("TimeExhausted")}

InitOrder ==
    /\ InitHandlers
    /\ InitUrlIdle
    /\ probe = NoCall
    /\ dl = NoCall
    /\ \E tx_id \in TxIds, did \in DocIds, service_id \in ServiceIds, num_tokens \in TokenAmounts :
        order = [pc |-> "validate_order", tx_id |-> tx_id, did |-> did,
                 service_id |-> service_id, num_tokens |-> num_tokens,
                 i |-> 0, calls |-> <<>>, out |-> NoReturn]

OrderFrame == UNCHANGED <<nonceVars, urlVars, probe, dl>>

\* validate_order lines 216-225: the contract object, the amount, the counters
validate_order_enter ==
    /\ order.pc = "validate_order"
    /\ order' = IF to_wei(order.num_tokens).kind = "raise"
                THEN [order EXCEPT !.pc = "done", !.out = to_wei(order.num_tokens)]
                ELSE [order EXCEPT !.pc = "while"]
    /\ OrderFrame

\* a faulty trial that does not re-raise the last ConnectionClosed
validate_order_trial_swallows ==
    /\ order.pc = "while"
    /\ IF order.i < num_tries
       THEN \E result \in verify_order_tx(order.tx_id) :
                LET called == [order EXCEPT !.i = @ + 1, !.calls = Append(@, result)] IN
                order' = IF result = ConnectionClosed THEN called
                         ELSE [called EXCEPT !.pc = "done", !.out = result]
       ELSE order' = [order EXCEPT !.pc = "done", !.out = Returns(None)]
    /\ OrderFrame

\* validate_order lines 226-246: the loop test and one trial; a function
\* that leaves its loop without a return statement returns None
validate_order_trial ==
    /\ order.pc = "while"
    /\ IF order.i < num_tries
       THEN \E result \in verify_order_tx(order.tx_id) :
                LET called == [order EXCEPT !.i = @ + 1, !.calls = Append(@, result)] IN
                order' = IF result = ConnectionClosed /\ called.i # num_tries THEN called
                         ELSE [called EXCEPT !.pc = "done", !.out = result]
       ELSE order' = [order EXCEPT !.pc = "done", !.out = Returns(None)]
    /\ OrderFrame

NextOrder == validate_order_enter \/ validate_order_trial

SpecOrder == InitOrder /\ [][NextOrder]_vars

\* C30: validate_order makes at most 3 calls of verify_order_tx; it goes on
\* to another call only after ConnectionClosed; once it has ended, every call
\* but the last raised ConnectionClosed and its outcome is the outcome of the
\* last call: the result of the first call that succeeded, the exception that
\* was not ConnectionClosed, or ConnectionClosed after exactly 3 calls; an
\* exception before the first call is propagated as it is; None is never returned
C30_ValidateOrderRetries ==
    LET n == Len(order.calls) IN
    /\ n <= 3 /\ order.i = n
    /\ order.pc # "done" =>
            /\ n < 3
            /\ \A k \in 1..n : order.calls[k] = ConnectionClosed
    /\ order.pc = "done" =>
            /\ \A k \in 1..(n - 1) : order.calls[k] = ConnectionClosed
            /\ order.out = IF n = 0 THEN Raises("ValueError") ELSE order.calls[n]
            /\ order.out = ConnectionClosed => n = 3
            /\ order.out.kind = "return" =>
                    /\ order.out.value # None
                    /\ order.out.value[1] = order.tx_id

\* three calls, each ending in ConnectionClosed, and ConnectionClosed re-raised
C30_Witness ==
    /\ order.pc = "done"
    /\ order.calls = <<ConnectionClosed, ConnectionClosed, ConnectionClosed>>
    /\ order.out = ConnectionClosed

====
